---- MODULE Spec2Model ----
(***************************************************************************)
(* The chunking engine of src/src/ingestion/chunker.py as a state machine: *)
(* CodeChunker.chunk (merge loop), DocumentChunker.chunk (section loop and *)
(* _split_by_length window loop) and the discovery run of src/main.py that *)
(* drives both through SemanticChunkerPipeline.                            *)
(*                                                                         *)
(* Text is a sequence of one-character strings, so that strip, split, join *)
(* rfind and slicing are computed as Python computes them.  Chunk ids are  *)
(* strings built by concatenation, as the f-strings of the source do.      *)
(***************************************************************************)
EXTENDS Integers, Sequences, FiniteSets, TLC

VARIABLES
    instance,          \* which class was constructed (one per specification)
    code_max_chars,    \* CodeChunker.max_chars
    doc_max_chars,     \* DocumentChunker.max_chars
    doc_overlap_chars, \* DocumentChunker.overlap_chars
    pc,                \* position of the running call
    code_chunks,       \* CodeChunker.chunk: the argument
    by_file,           \* CodeChunker.chunk: insertion-ordered dict, a sequence of [file_path, file_chunks]
    file_i,            \* CodeChunker.chunk: position of the outer for loop in by_file (1-based)
    unit_i,            \* CodeChunker.chunk: position of the inner for loop in file_chunks (1-based)
    current_buffer,    \* CodeChunker.chunk: current_buffer
    current_length,    \* CodeChunker.chunk: current_length
    chunk_idx,         \* CodeChunker.chunk: chunk_idx
    current_units,     \* history: the units whose entries are in current_buffer
    chunk_units,       \* history: for each chunk of semantic_chunks, the units flushed into it
    content,           \* DocumentChunker.chunk: argument content
    source,            \* DocumentChunker.chunk: argument source
    file_type,         \* DocumentChunker.chunk: argument file_type
    sections,          \* DocumentChunker.chunk: sections
    idx,               \* DocumentChunker.chunk: idx of enumerate(sections) (0-based)
    text,              \* _split_by_length: argument text
    start,             \* _split_by_length: start
    sub_idx,           \* _split_by_length: sub_idx
    chunks,            \* _split_by_length: chunks
    windows,           \* _split_by_length: the [start, end) pairs carved so far (history)
    semantic_chunks,   \* the list a chunk call builds and returns
    dpc,               \* discover: position in the discovery run
    code_docs,         \* discover: code_docs, the file path of each
    code_i,            \* discover: position of for doc in code_docs (1-based)
    all_code_chunks,   \* discover: all_code_chunks
    doc_docs,          \* discover: doc_docs, each [content, source, file_type]
    doc_i,             \* discover: position of for doc in doc_docs (1-based)
    semantic_code,     \* discover: semantic_code
    semantic_docs,     \* discover: semantic_docs
    collection,        \* VectorStore: the skill's collection, id -> [content, metadata]
    calls,             \* history: the number of chunk calls that returned
    first_args,        \* history: the arguments of the first chunk call
    first_result,      \* history: the list the first chunk call returned
    alone_result,      \* history: the lists of the later calls, one after the other
    ppc,               \* position of the running parse_file call
    parse_path,        \* parse_file: argument file_path
    parse_decls,       \* the declarations the grammar's query matches in file_content, in match order
    parse_i,           \* extract_*: position of the loop over the matched nodes (1-based)
    parse_chunks,      \* extract_*: chunks
    trivial            \* history: what _is_trivial_getter_setter returned for each declaration it was asked about

codeVars == <<code_chunks, by_file, file_i, unit_i, current_buffer, current_length, chunk_idx,
              current_units, chunk_units>>
docVars == <<content, source, file_type, sections, idx, text, start, sub_idx, chunks, windows>>
confVars == <<instance, code_max_chars, doc_max_chars, doc_overlap_chars>>
discVars == <<dpc, code_docs, code_i, all_code_chunks, doc_docs, doc_i, semantic_code,
              semantic_docs, collection>>
histVars == <<calls, first_args, first_result, alone_result>>
parseVars == <<ppc, parse_path, parse_decls, parse_i, parse_chunks, trivial>>

-----------------------------------------------------------------------------
(* Bounds of the model *)

\* longest unit list handed to CodeChunker.chunk
MaxUnits == 3
\* largest max_chars a chunker is constructed with
MaxChars == 3
\* largest overlap_chars a DocumentChunker is constructed with
MaxOverlap == 2
\* most lines of a document handed to DocumentChunker.chunk
MaxLines == 3
\* most iterations of the window loop of _split_by_length that are followed
MaxIter == 6
\* most units parse_file returns for one file of a discovery run
MaxParsed == 2
\* most documents of a discovery run
MaxDocs == 2
\* longest unit list of a repeated CodeChunker.chunk call
MaxRepeatUnits == 2
\* most lines of the document of a repeated DocumentChunker.chunk call
MaxRepeatLines == 2
\* most declarations the grammar's query matches in one parsed file
MaxDecls == 2

-----------------------------------------------------------------------------
(* Python string and list primitives *)

NL == "\n"

Min(a, b) == IF a < b THEN a ELSE b

Max(a, b) == IF a > b THEN a ELSE b

\* str.isspace of one character, as str.strip() uses it
IsSpace(c) == c \in {" ", "\n", "\t", "\r"}

RECURSIVE LStrip(_)
LStrip(s) == IF s # <<>> /\ IsSpace(Head(s)) THEN LStrip(Tail(s)) ELSE s

RECURSIVE RStrip(_)
RStrip(s) == IF s # <<>> /\ IsSpace(s[Len(s)]) THEN RStrip(SubSeq(s, 1, Len(s) - 1)) ELSE s

\* str.strip()
Strip(s) == RStrip(LStrip(s))

\* the index normalisation of Python slices: negative indices count from the end
PyIndex(i, n) == IF i < 0 THEN Max(n + i, 0) ELSE Min(i, n)

\* s[i:j]
PySlice(s, i, j) ==
    LET a == PyIndex(i, Len(s))
        b == PyIndex(j, Len(s))
    IN  IF a >= b THEN <<>> ELSE SubSeq(s, a + 1, b)

\* s.startswith(p)
StartsWith(s, p) == Len(s) >= Len(p) /\ SubSeq(s, 1, Len(p)) = p

\* the 0-based positions k at which sub occurs in s with a <= k and k + len(sub) <= b
Occurrences(s, sub, a, b) ==
    {k \in a..(b - Len(sub)) : SubSeq(s, k + 1, k + Len(sub)) = sub}

\* s.find(sub): lowest position, or -1
Find(s, sub) ==
    LET occ == Occurrences(s, sub, 0, Len(s))
    IN  IF occ = {} THEN -1 ELSE CHOOSE k \in occ : \A j \in occ : k <= j

\* s.rfind(sub, i, j): highest position inside s[i:j], or -1
RFind(s, sub, i, j) ==
    LET occ == Occurrences(s, sub, PyIndex(i, Len(s)), PyIndex(j, Len(s)))
    IN  IF occ = {} THEN -1 ELSE CHOOSE k \in occ : \A m \in occ : k >= m

\* s.split(sep) for a non-empty sep: left to right, non-overlapping
RECURSIVE Split(_, _)
Split(s, sep) ==
    LET k == Find(s, sep)
    IN  IF k = -1 THEN <<s>>
        ELSE <<SubSeq(s, 1, k)>> \o Split(SubSeq(s, k + Len(sep) + 1, Len(s)), sep)

\* sep.join(parts)
RECURSIVE Join(_, _)
Join(parts, sep) ==
    IF parts = <<>> THEN <<>>
    ELSE IF Len(parts) = 1 THEN parts[1]
    ELSE parts[1] \o sep \o Join(Tail(parts), sep)

\* a sort that puts a unit before the earlier units of the same start_line
RECURSIVE SortByStartLine_Unstable(_)
SortByStartLine_Unstable(cs) ==
    IF cs = <<>> THEN <<>>
    ELSE LET rest == SortByStartLine_Unstable(SubSeq(cs, 1, Len(cs) - 1))
             c == cs[Len(cs)]
             k == Cardinality({i \in 1..Len(rest) : rest[i].start_line < c.start_line})
         IN  SubSeq(rest, 1, k) \o <<c>> \o SubSeq(rest, k + 1, Len(rest))

\* list.sort(key=lambda c: c.start_line): stable, ascending (insertion into a sorted prefix)
RECURSIVE SortByStartLine(_)
SortByStartLine(cs) ==
    IF cs = <<>> THEN <<>>
    ELSE LET rest == SortByStartLine(SubSeq(cs, 1, Len(cs) - 1))
             c == cs[Len(cs)]
             k == Cardinality({i \in 1..Len(rest) : rest[i].start_line <= c.start_line})
         IN  SubSeq(rest, 1, k) \o <<c>> \o SubSeq(rest, k + 1, Len(rest))

-----------------------------------------------------------------------------
(* Inputs *)

\* a CodeChunk of cast_parser.py (the fields the chunker reads, and the name)
CodeChunk(file_path, start_line, language, docstring, body) ==
    [name |-> "m", language |-> language, body |-> body, docstring |-> docstring,
     start_line |-> start_line, file_path |-> file_path]

\* the units a unit list is drawn from: two files, equal and unequal start
\* lines, both languages inside one file, empty and non-empty docstrings,
\* bodies of length 0 to 4, a body ending in a newline and entries holding a
\* blank line
UnitPool ==
    { CodeChunk("A.java", 1, "java", <<>>, <<"a">>),
      CodeChunk("A.java", 2, "java", <<"d">>, <<"b">>),
      CodeChunk("A.java", 2, "typescript", <<>>, <<"c", "c">>),
      CodeChunk("A.java", 3, "java", <<>>, <<"e", NL, NL, "e">>),
      CodeChunk("A.java", 3, "java", <<"d">>, <<NL>>),
      CodeChunk("B.ts", 1, "typescript", <<>>, <<>>),
      CodeChunk("B.ts", 2, "typescript", <<>>, <<"f", NL>>),
      CodeChunk("B.ts", 1, "java", <<>>, <<"g">>) }

\* the unit lists of at most n units
RECURSIVE UnitLists(_)
UnitLists(n) ==
    IF n = 0 THEN {<<>>}
    ELSE LET shorter == UnitLists(n - 1)
         IN  shorter \cup {Append(l, u) : l \in {x \in shorter : Len(x) = n - 1}, u \in UnitPool}

\* the arguments of CodeChunker.chunk
CodeArgs == UnitLists(MaxUnits)

\* the max_chars values a chunker is constructed with (0 is a non-positive one)
MaxCharsArgs == 0..MaxChars

\* the overlap_chars values a DocumentChunker is constructed with
OverlapArgs == 0..MaxOverlap

-----------------------------------------------------------------------------
(* CodeChunker *)

\* CodeChunker.__init__: stores its arguments, whatever they are
CodeChunker_init(max_chars, overlap_chars) ==
    [max_chars |-> max_chars, overlap_chars |-> overlap_chars]

\* by_file.setdefault(chunk.file_path, []).append(chunk), for each chunk in order
RECURSIVE GroupByFile(_)
GroupByFile(cs) ==
    IF cs = <<>> THEN <<>>
    ELSE LET prev == GroupByFile(SubSeq(cs, 1, Len(cs) - 1))
             c == cs[Len(cs)]
             at == {i \in 1..Len(prev) : prev[i].file_path = c.file_path}
         IN  IF at = {}
             THEN Append(prev, [file_path |-> c.file_path, file_chunks |-> <<c>>])
             ELSE LET i == CHOOSE i \in at : TRUE
                  IN  [prev EXCEPT ![i].file_chunks = Append(@, c)]

\* entry_text: the docstring, when there is one, a newline, the body
EntryText(fc) ==
    Join((IF fc.docstring # <<>> THEN <<fc.docstring>> ELSE <<>>) \o <<fc.body>>, <<NL>>)

\* a flush condition that forgets the running length
ShouldFlush_EntryOnly(length, entry_text, buffer, max_chars) ==
    Len(entry_text) > max_chars /\ buffer # <<>>

\* a flush condition that looks at the running length before the entry is added
ShouldFlush_LengthOnly(length, entry_text, buffer, max_chars) ==
    length > max_chars /\ buffer # <<>>

\* a flush condition that flushes already when the limit is reached exactly
ShouldFlush_AtLimit(length, entry_text, buffer, max_chars) ==
    length + Len(entry_text) >= max_chars /\ buffer # <<>>

\* the condition of the mid-file flush
ShouldFlush(length, entry_text, buffer, max_chars) ==
    length + Len(entry_text) > max_chars /\ buffer # <<>>

\* f"{file_path}::chunk_{chunk_idx}"
CodeChunkId(file_path, n) == file_path \o "::chunk_" \o ToString(n)

\* a flush that joins the buffer with a single newline
CodeSemanticChunk_SingleNewline(file_path, n, buffer, language) ==
    [id |-> CodeChunkId(file_path, n),
     content |-> Join(buffer, <<NL>>),
     chunk_type |-> "code",
     metadata |-> [file_path |-> file_path, language |-> language,
                   type |-> "code", chunk_index |-> n]]

\* the SemanticChunk a flush appends
CodeSemanticChunk(file_path, n, buffer, language) ==
    [id |-> CodeChunkId(file_path, n),
     content |-> Join(buffer, <<NL, NL>>),
     chunk_type |-> "code",
     metadata |-> [file_path |-> file_path, language |-> language,
                   type |-> "code", chunk_index |-> n]]

\* a chunk_idx kept from the previous file or call instead of starting at 0
FirstChunkIdx_Carried == chunk_idx

\* the chunk_idx of the first chunk of a file
FirstChunkIdx == 0

\* a flush that forgets chunk_idx += 1
NextChunkIdx_Stuck(n) == n

\* chunk_idx after a flush
NextChunkIdx(n) == n + 1

\* a buffer kept from the previous file instead of a new list
FreshBuffer_Kept == current_buffer

\* current_buffer: list[str] = [], at the top of each file
FreshBuffer == <<>>

\* the file the outer loop is at, and its units
CurFile == by_file[file_i]

\* CodeChunker.chunk(code_chunks): the empty-list return, or the grouping by file
CodeChunk_Call(cs) ==
    /\ pc = "idle"
    /\ instance \in {"CodeChunker", "SemanticChunkerPipeline"}
    /\ code_chunks' = cs
    /\ semantic_chunks' = <<>>
    /\ IF cs = <<>>
       THEN /\ pc' = "done"
            /\ UNCHANGED <<by_file, file_i>>
       ELSE /\ by_file' = GroupByFile(cs)
            /\ file_i' = 1
            /\ pc' = "files"
    /\ chunk_units' = <<>>
    /\ UNCHANGED <<unit_i, current_buffer, current_length, chunk_idx, current_units>>
    /\ UNCHANGED <<docVars, confVars, parseVars>>

\* for file_path, file_chunks in by_file.items(): sort, reset the accumulator
Code_NextFile ==
    /\ pc = "files"
    /\ file_i <= Len(by_file)
    /\ by_file' = [by_file EXCEPT ![file_i].file_chunks = SortByStartLine(@)]
    /\ current_buffer' = FreshBuffer
    /\ current_length' = 0
    /\ chunk_idx' = FirstChunkIdx
    /\ unit_i' = 1
    /\ current_units' = <<>>
    /\ pc' = "units"
    /\ UNCHANGED <<code_chunks, file_i, semantic_chunks, chunk_units, docVars, confVars, parseVars>>

\* one iteration of for fc in file_chunks
Code_Unit ==
    /\ pc = "units"
    /\ unit_i <= Len(CurFile.file_chunks)
    /\ LET fc == CurFile.file_chunks[unit_i]
           entry_text == EntryText(fc)
       IN  IF ShouldFlush(current_length, entry_text, current_buffer, code_max_chars)
           THEN /\ semantic_chunks' = Append(semantic_chunks,
                        CodeSemanticChunk(CurFile.file_path, chunk_idx, current_buffer, fc.language))
                /\ chunk_idx' = NextChunkIdx(chunk_idx)
                /\ current_buffer' = <<entry_text>>
                /\ current_length' = Len(entry_text)
                /\ chunk_units' = Append(chunk_units, current_units)
                /\ current_units' = <<fc>>
           ELSE /\ current_buffer' = Append(current_buffer, entry_text)
                /\ current_length' = current_length + Len(entry_text)
                /\ current_units' = Append(current_units, fc)
                /\ UNCHANGED <<semantic_chunks, chunk_idx, chunk_units>>
    /\ unit_i' = unit_i + 1
    /\ UNCHANGED <<code_chunks, by_file, file_i, pc, docVars, confVars, parseVars>>

\* after the inner loop: flush remaining, go to the next file
Code_FlushRemaining ==
    /\ pc = "units"
    /\ unit_i > Len(CurFile.file_chunks)
    /\ IF current_buffer # <<>>
       THEN /\ semantic_chunks' = Append(semantic_chunks,
                    CodeSemanticChunk(CurFile.file_path, chunk_idx, current_buffer,
                                      IF CurFile.file_chunks # <<>>
                                      THEN CurFile.file_chunks[1].language ELSE "unknown"))
            /\ chunk_units' = Append(chunk_units, current_units)
       ELSE UNCHANGED <<semantic_chunks, chunk_units>>
    /\ file_i' = file_i + 1
    /\ pc' = "files"
    /\ UNCHANGED <<code_chunks, by_file, unit_i, current_buffer, current_length, chunk_idx,
                   current_units>>
    /\ UNCHANGED <<docVars, confVars, parseVars>>

\* return semantic_chunks
Code_Return ==
    /\ pc = "files"
    /\ file_i > Len(by_file)
    /\ pc' = "done"
    /\ UNCHANGED <<codeVars, docVars, confVars, parseVars, semantic_chunks>>

-----------------------------------------------------------------------------
(* DocumentChunker *)

\* the lines a document is made of: empty, text, blank, header, horizontal rule
DocLines == { <<>>, <<"a">>, <<" ">>, <<"#", "a">>, <<"-", "-", "-">> }

\* the sequences of 1 to n lines
RECURSIVE LineLists(_)
LineLists(n) ==
    IF n = 0 THEN {<<>>}
    ELSE LET shorter == LineLists(n - 1)
         IN  shorter \cup {Append(l, x) : l \in {y \in shorter : Len(y) = n - 1}, x \in DocLines}

\* the documents handed to DocumentChunker.chunk
Documents == {Join(ls, <<NL>>) : ls \in LineLists(MaxLines) \ {<<>>}}

\* the file_type arguments: a documentation type and an unknown type
FileTypes == {"md", "bin"}

\* DocumentChunker.__init__: stores its arguments, whatever they are
DocumentChunker_init(max_chars, overlap_chars) ==
    [max_chars |-> max_chars, overlap_chars |-> overlap_chars]

\* a marker test that knows headers only
IsMarker_HeaderOnly(line) == StartsWith(Strip(line), <<"#">>)

\* stripped.startswith("#") or stripped in ("---", "***", "___")
IsMarker(line) ==
    LET stripped == Strip(line)
    IN  \/ StartsWith(stripped, <<"#">>)
        \/ stripped \in {<<"-", "-", "-">>, <<"*", "*", "*">>, <<"_", "_", "_">>}

\* the loop of _split_on_headers over lines[1..n]: <<sections, current>>
RECURSIVE HeaderScan(_, _)
HeaderScan(lines, n) ==
    IF n = 0 THEN <<<<>>, <<>>>>
    ELSE LET prev == HeaderScan(lines, n - 1)
             secs == prev[1]
             current == prev[2]
         IN  IF IsMarker(lines[n]) /\ current # <<>>
             THEN <<Append(secs, Join(current, <<NL>>)), <<lines[n]>>>>
             ELSE <<secs, Append(current, lines[n])>>

\* a split that forgets the lines left in current after the loop
SplitOnHeaders_NoLastFlush(c) ==
    LET lines == Split(c, <<NL>>)
    IN  HeaderScan(lines, Len(lines))[1]

\* DocumentChunker._split_on_headers(content)
SplitOnHeaders(c) ==
    LET lines == Split(c, <<NL>>)
        scan == HeaderScan(lines, Len(lines))
    IN  IF scan[2] # <<>> THEN Append(scan[1], Join(scan[2], <<NL>>)) ELSE scan[1]

\* a document chunk id that leaves the source out
DocChunkId_NoSource(src, i) == "::doc_" \o ToString(i)

\* f"{source}::doc_{idx}"
DocChunkId(src, i) == src \o "::doc_" \o ToString(i)

\* f"{source}::doc_{section_idx}_{sub_idx}"
SubChunkId(src, i, j) == src \o "::doc_" \o ToString(i) \o "_" \o ToString(j)

\* the SemanticChunk of a section within the size limit
SectionChunk(section, src, ftype, i) ==
    [id |-> DocChunkId(src, i),
     content |-> Strip(section),
     chunk_type |-> "doc",
     metadata |-> [source |-> src, file_type |-> ftype, type |-> "doc", section_index |-> i]]

\* the SemanticChunk of a carved window
WindowChunk(chunk_text, src, i, j) ==
    [id |-> SubChunkId(src, i, j),
     content |-> chunk_text,
     chunk_type |-> "doc",
     metadata |-> [source |-> src, type |-> "doc", section_index |-> i, sub_index |-> j]]

\* whether a section is emitted whole
FitsWhole(section, max_chars) == Len(section) <= max_chars

\* a window one character too long
WindowEnd_OneMore(t, s, max_chars) ==
    LET hard == Min(s + max_chars + 1, Len(t))
    IN  IF hard < Len(t)
        THEN LET last_break == RFind(t, <<NL, NL>>, s, hard)
             IN  IF last_break > s THEN last_break ELSE hard
        ELSE hard

\* the end of the window starting at s: the hard boundary, or the last
\* paragraph break inside the window when text remains after it
WindowEnd(t, s, max_chars) ==
    LET hard == Min(s + max_chars, Len(t))
    IN  IF hard < Len(t)
        THEN LET last_break == RFind(t, <<NL, NL>>, s, hard)
             IN  IF last_break > s THEN last_break ELSE hard
        ELSE hard

\* start = end - self.overlap_chars if end < len(text) else len(text)
NextStart(t, end, overlap_chars) ==
    IF end < Len(t) THEN end - overlap_chars ELSE Len(t)

\* an emitted window that forgets sub_idx += 1
NextSubIdx_Stuck(j) == j

\* sub_idx after a window was emitted
NextSubIdx(j) == j + 1

\* an emptiness test that forgets to trim
IsBlank_Untrimmed(c) == c = <<>>

\* not content.strip()
IsBlank(c) == Strip(c) = <<>>

\* DocumentChunker.chunk(content, source, file_type): the empty return, or Stage A
DocChunk_Call(c, src, ftype) ==
    /\ pc = "idle"
    /\ instance \in {"DocumentChunker", "SemanticChunkerPipeline"}
    /\ content' = c
    /\ source' = src
    /\ file_type' = ftype
    /\ semantic_chunks' = <<>>
    /\ IF IsBlank(c)
       THEN /\ pc' = "done"
            /\ UNCHANGED <<sections, idx>>
       ELSE /\ sections' = SplitOnHeaders(c)
            /\ idx' = 0
            /\ pc' = "sections"
    /\ UNCHANGED <<text, start, sub_idx, chunks, windows, codeVars, confVars, parseVars>>

\* one iteration of for idx, section in enumerate(sections), up to the call of _split_by_length
Doc_Section ==
    /\ pc = "sections"
    /\ idx < Len(sections)
    /\ LET section == sections[idx + 1]
       IN  IF FitsWhole(section, doc_max_chars)
           THEN /\ semantic_chunks' = Append(semantic_chunks,
                        SectionChunk(section, source, file_type, idx))
                /\ idx' = idx + 1
                /\ UNCHANGED <<pc, text, start, sub_idx, chunks, windows>>
           ELSE /\ text' = section
                /\ start' = 0
                /\ sub_idx' = 0
                /\ chunks' = <<>>
                /\ windows' = <<>>
                /\ pc' = "split"
                /\ UNCHANGED <<semantic_chunks, idx>>
    /\ UNCHANGED <<content, source, file_type, sections, codeVars, confVars, parseVars>>

\* one iteration of while start < len(text) in _split_by_length
Doc_Window ==
    /\ pc = "split"
    /\ start < Len(text)
    /\ Len(windows) < MaxIter
    /\ LET end == WindowEnd(text, start, doc_max_chars)
           chunk_text == Strip(PySlice(text, start, end))
       IN  /\ IF chunk_text # <<>>
              THEN /\ chunks' = Append(chunks, WindowChunk(chunk_text, source, idx, sub_idx))
                   /\ sub_idx' = NextSubIdx(sub_idx)
              ELSE UNCHANGED <<chunks, sub_idx>>
           /\ start' = NextStart(text, end, doc_overlap_chars)
           /\ windows' = Append(windows, <<start, end>>)
    /\ UNCHANGED <<content, source, file_type, sections, idx, text, pc>>
    /\ UNCHANGED <<semantic_chunks, codeVars, confVars, parseVars>>

\* _split_by_length returns: semantic_chunks.extend(sub_chunks), next section
Doc_SplitReturn ==
    /\ pc = "split"
    /\ ~(start < Len(text))
    /\ semantic_chunks' = semantic_chunks \o chunks
    /\ idx' = idx + 1
    /\ pc' = "sections"
    /\ UNCHANGED <<content, source, file_type, sections, text, start, sub_idx, chunks, windows>>
    /\ UNCHANGED <<codeVars, confVars, parseVars>>

\* return semantic_chunks
Doc_Return ==
    /\ pc = "sections"
    /\ ~(idx < Len(sections))
    /\ pc' = "done"
    /\ UNCHANGED <<docVars, codeVars, confVars, parseVars, semantic_chunks>>

-----------------------------------------------------------------------------
(* Specifications *)

vars == <<instance, code_max_chars, doc_max_chars, doc_overlap_chars, pc,
          code_chunks, by_file, file_i, unit_i, current_buffer, current_length, chunk_idx,
          current_units, chunk_units,
          content, source, file_type, sections, idx, text, start, sub_idx, chunks, windows,
          semantic_chunks, dpc, code_docs, code_i, all_code_chunks, doc_docs, doc_i,
          semantic_code, semantic_docs, collection, calls, first_args, first_result,
          alone_result, ppc, parse_path, parse_decls, parse_i, parse_chunks, trivial>>

\* the locals of both chunk methods before any call
NoCall ==
    /\ pc = "idle"
    /\ code_chunks = <<>> /\ by_file = <<>> /\ file_i = 0 /\ unit_i = 0
    /\ current_buffer = <<>> /\ current_length = 0 /\ chunk_idx = 0
    /\ current_units = <<>> /\ chunk_units = <<>>
    /\ content = <<>> /\ source = "" /\ file_type = "" /\ sections = <<>> /\ idx = 0
    /\ text = <<>> /\ start = 0 /\ sub_idx = 0 /\ chunks = <<>> /\ windows = <<>>
    /\ semantic_chunks = <<>>

\* no parse_file call
NoParse ==
    /\ ppc = "idle" /\ parse_path = "" /\ parse_decls = <<>> /\ parse_i = 0
    /\ parse_chunks = <<>> /\ trivial = <<>>

\* no discovery run, no call history
NoRun ==
    /\ dpc = "none" /\ code_docs = <<>> /\ code_i = 0 /\ all_code_chunks = <<>>
    /\ doc_docs = <<>> /\ doc_i = 0 /\ semantic_code = <<>> /\ semantic_docs = <<>>
    /\ collection = <<>>
    /\ calls = 0 /\ first_args = <<>> /\ first_result = <<>> /\ alone_result = <<>>

\* a CodeChunker was constructed
InitCode ==
    /\ instance = "CodeChunker"
    /\ \E m \in MaxCharsArgs : code_max_chars = CodeChunker_init(m, 0).max_chars
    /\ doc_max_chars = 0
    /\ doc_overlap_chars = 0
    /\ NoCall
    /\ NoRun
    /\ NoParse

NextCode ==
    \/ /\ pc = "idle"
       /\ \E cs \in CodeArgs : CodeChunk_Call(cs)
       /\ UNCHANGED <<discVars, histVars>>
    \/ Code_NextFile /\ UNCHANGED <<discVars, histVars>>
    \/ Code_Unit /\ UNCHANGED <<discVars, histVars>>
    \/ Code_FlushRemaining /\ UNCHANGED <<discVars, histVars>>
    \/ Code_Return /\ UNCHANGED <<discVars, histVars>>

SpecCode == InitCode /\ [][NextCode]_vars

\* a DocumentChunker was constructed
InitDoc ==
    /\ instance = "DocumentChunker"
    /\ \E m \in MaxCharsArgs, o \in OverlapArgs :
          /\ doc_max_chars = DocumentChunker_init(m, o).max_chars
          /\ doc_overlap_chars = DocumentChunker_init(m, o).overlap_chars
    /\ code_max_chars = 0
    /\ NoCall
    /\ NoRun
    /\ NoParse

NextDoc ==
    \/ /\ pc = "idle"
       /\ \E c \in Documents, ft \in FileTypes : DocChunk_Call(c, "s", ft)
       /\ UNCHANGED <<discVars, histVars>>
    \/ Doc_Section /\ UNCHANGED <<discVars, histVars>>
    \/ Doc_Window /\ UNCHANGED <<discVars, histVars>>
    \/ Doc_SplitReturn /\ UNCHANGED <<discVars, histVars>>
    \/ Doc_Return /\ UNCHANGED <<discVars, histVars>>

SpecDoc == InitDoc /\ [][NextDoc]_vars

-----------------------------------------------------------------------------
(* The discovery run of main.py: parse, chunk, store *)

\* the characters of the file paths of the model
PathChars(path) ==
    CASE path = "A.java" -> <<"A", ".", "j", "a", "v", "a">>
      [] path = "B.ts" -> <<"B", ".", "t", "s">>
      [] path = "C.TSX" -> <<"C", ".", "T", "S", "X">>
      [] path = "D.Java" -> <<"D", ".", "J", "a", "v", "a">>
      [] path = "E.py" -> <<"E", ".", "p", "y">>
      [] path = "F.java.bak" -> <<"F", ".", "j", "a", "v", "a", ".", "b", "a", "k">>
      [] path = "v.ts/README" -> <<"v", ".", "t", "s", "/", "R", "E", "A", "D", "M", "E">>
      [] path = "java" -> <<"j", "a", "v", "a">>
      [] path = "G.tsx" -> <<"G", ".", "t", "s", "x">>
      [] path = "H.javax" -> <<"H", ".", "j", "a", "v", "a", "x">>
      [] OTHER -> <<>>

\* the ASCII letters, upper case and lower case
UpperLetters ==
    <<"A", "B", "C", "D", "E", "F", "G", "H", "I", "J", "K", "L", "M",
      "N", "O", "P", "Q", "R", "S", "T", "U", "V", "W", "X", "Y", "Z">>

LowerLetters ==
    <<"a", "b", "c", "d", "e", "f", "g", "h", "i", "j", "k", "l", "m",
      "n", "o", "p", "q", "r", "s", "t", "u", "v", "w", "x", "y", "z">>

\* str.lower of one character
LowerChar(c) ==
    IF \E k \in 1..Len(UpperLetters) : UpperLetters[k] = c
    THEN LowerLetters[CHOOSE k \in 1..Len(UpperLetters) : UpperLetters[k] = c]
    ELSE c

\* str.lower
Lower(cs) == [k \in 1..Len(cs) |-> LowerChar(cs[k])]

\* an extension taken without asking whether the path has a dot
FileExt_NoDotCheck(path) ==
    LET cs == PathChars(path)
        dot == RFind(cs, <<".">>, 0, Len(cs))
    IN  Lower(SubSeq(cs, dot + 2, Len(cs)))

\* file_path.rsplit(".", 1)[-1].lower() if "." in file_path else ""
FileExt(path) ==
    LET cs == PathChars(path)
        dot == RFind(cs, <<".">>, 0, Len(cs))
    IN  IF dot = -1 THEN <<>> ELSE Lower(SubSeq(cs, dot + 2, Len(cs)))

\* the units tree-sitter can hand back for a file: declarations of that file
\* in the grammar's language, each with a non-empty source span
ExtractedUnits(path, language) ==
    {u \in UnitPool : u.file_path = path /\ u.language = language /\ u.body # <<>>}

\* the lists of at most n units over a set of units
RECURSIVE ListsOver(_, _)
ListsOver(units, n) ==
    IF n = 0 THEN {<<>>}
    ELSE LET shorter == ListsOver(units, n - 1)
         IN  shorter \cup {Append(l, u) : l \in {x \in shorter : Len(x) = n - 1}, u \in units}

\* parse_file(file_content, file_path): the lists it can return
ParseFile(path) ==
    LET ext == FileExt(path)
    IN  IF ext = <<"j", "a", "v", "a">>
        THEN ListsOver(ExtractedUnits(path, "java"), MaxParsed)
        ELSE IF ext \in {<<"t", "s">>, <<"t", "s", "x">>}
        THEN ListsOver(ExtractedUnits(path, "typescript"), MaxParsed)
        ELSE {<<>>}

\* the contents of the documents of a discovery run: one section, two
\* sections, a section with a paragraph break
RunContents ==
    { <<"a">>, <<"#", "a", NL, "#", "a">>, <<"a", NL, NL, "a", " ", "a">> }

\* the sources of the documents, pairwise distinct as the connectors make them
\* (one per file path or page title)
RunSources == <<"local:x.md", "local:y.md", "local:z.md">>

\* doc_docs: up to MaxDocs documents with distinct sources
DocBatches ==
    UNION { [1..n -> RunContents] : n \in 0..MaxDocs }

\* the RawDocument at position k of a batch of contents
RawDocument(cs, k) == [content |-> cs[k], source |-> RunSources[k], file_type |-> "md"]

\* SemanticChunkerPipeline.__init__: a CodeChunker and a DocumentChunker
SemanticChunkerPipeline_init(code_max, doc_max, doc_overlap) ==
    [code_chunker |-> CodeChunker_init(code_max, 0),
     doc_chunker |-> DocumentChunker_init(doc_max, doc_overlap)]

\* collection.upsert(ids, documents, metadatas): one entry per id, the last one wins
RECURSIVE Upsert(_, _)
Upsert(coll, cs) ==
    IF cs = <<>> THEN coll
    ELSE LET c == Head(cs)
             rest == [i \in DOMAIN coll \ {c.id} |-> coll[i]]
         IN  Upsert((c.id :> [content |-> c.content, metadata |-> c.metadata]) @@ rest, Tail(cs))

\* for doc in code_docs: all_code_chunks.extend(parse_file(doc.content, file_path))
Discover_Parse ==
    /\ dpc = "parse"
    /\ code_i <= Len(code_docs)
    /\ \E r \in ParseFile(code_docs[code_i]) : all_code_chunks' = all_code_chunks \o r
    /\ code_i' = code_i + 1
    /\ UNCHANGED <<dpc, code_docs, doc_docs, doc_i, semantic_code, semantic_docs, collection>>
    /\ UNCHANGED <<pc, semantic_chunks, codeVars, docVars, confVars, parseVars, histVars>>

\* parse_file raises inside an extraction (get_parser, file_content.encode,
\* the query): nothing in parse_file or in the loop catches it, the handler
\* around the whole run turns it into HTTPException(500)
Discover_ParseRaises ==
    /\ dpc = "parse"
    /\ code_i <= Len(code_docs)
    /\ FileExt(code_docs[code_i]) \in {<<"j", "a", "v", "a">>, <<"t", "s">>, <<"t", "s", "x">>}
    /\ dpc' = "aborted"
    /\ UNCHANGED <<code_docs, code_i, all_code_chunks, doc_docs, doc_i, semantic_code,
                   semantic_docs, collection>>
    /\ UNCHANGED <<pc, semantic_chunks, codeVars, docVars, confVars, parseVars, histVars>>

\* semantic_code = chunker.chunk_code(all_code_chunks): the call
Discover_ChunkCode ==
    /\ dpc = "parse"
    /\ code_i > Len(code_docs)
    /\ CodeChunk_Call(all_code_chunks)
    /\ dpc' = "chunk_code"
    /\ UNCHANGED <<code_docs, code_i, all_code_chunks, doc_docs, doc_i, semantic_code,
                   semantic_docs, collection, histVars>>

\* semantic_code = chunker.chunk_code(all_code_chunks): the return
Discover_CodeChunked ==
    /\ dpc = "chunk_code"
    /\ pc = "done"
    /\ semantic_code' = semantic_chunks
    /\ pc' = "idle"
    /\ dpc' = "chunk_docs"
    /\ doc_i' = 1
    /\ UNCHANGED <<code_docs, code_i, all_code_chunks, doc_docs, semantic_docs, collection>>
    /\ UNCHANGED <<semantic_chunks, codeVars, docVars, confVars, parseVars, histVars>>

\* chunker.chunk_document(doc.content, doc.source, doc.file_type): the call
Discover_ChunkDoc ==
    /\ dpc = "chunk_docs"
    /\ doc_i <= Len(doc_docs)
    /\ LET doc == RawDocument(doc_docs, doc_i)
       IN  DocChunk_Call(doc.content, doc.source, doc.file_type)
    /\ UNCHANGED <<discVars, histVars>>

\* semantic_docs.extend(...): the return
Discover_DocChunked ==
    /\ dpc = "chunk_docs"
    /\ pc = "done"
    /\ semantic_docs' = semantic_docs \o semantic_chunks
    /\ doc_i' = doc_i + 1
    /\ pc' = "idle"
    /\ UNCHANGED <<dpc, code_docs, code_i, all_code_chunks, doc_docs, semantic_code, collection>>
    /\ UNCHANGED <<semantic_chunks, codeVars, docVars, confVars, parseVars, histVars>>

\* all_semantic = semantic_code + semantic_docs; store.upsert_chunks(skill_name, ...)
Discover_Store ==
    /\ dpc = "chunk_docs"
    /\ pc = "idle"
    /\ doc_i > Len(doc_docs)
    /\ collection' = Upsert(collection, semantic_code \o semantic_docs)
    /\ dpc' = "stored"
    /\ UNCHANGED <<code_docs, code_i, all_code_chunks, doc_docs, doc_i, semantic_code,
                   semantic_docs>>
    /\ UNCHANGED <<pc, semantic_chunks, codeVars, docVars, confVars, parseVars, histVars>>

\* a discovery run starts: the documents are fetched, the pipeline is
\* constructed with its defaults, here the largest max_chars of the model for
\* code, one less for documents, and an overlap of one
InitDiscover ==
    /\ instance = "SemanticChunkerPipeline"
    /\ LET p == SemanticChunkerPipeline_init(MaxChars, MaxChars - 1, MaxOverlap - 1)
       IN  /\ code_max_chars = p.code_chunker.max_chars
           /\ doc_max_chars = p.doc_chunker.max_chars
           /\ doc_overlap_chars = p.doc_chunker.overlap_chars
    /\ NoCall
    /\ dpc = "parse"
    /\ code_docs = <<"A.java", "B.ts">>
    /\ code_i = 1
    /\ all_code_chunks = <<>>
    /\ doc_docs \in DocBatches
    /\ doc_i = 0
    /\ semantic_code = <<>> /\ semantic_docs = <<>> /\ collection = <<>>
    /\ calls = 0 /\ first_args = <<>> /\ first_result = <<>> /\ alone_result = <<>>
    /\ NoParse

NextDiscover ==
    \/ Discover_Parse
    \/ Discover_ParseRaises
    \/ Discover_ChunkCode
    \/ Code_NextFile /\ UNCHANGED <<discVars, histVars>>
    \/ Code_Unit /\ UNCHANGED <<discVars, histVars>>
    \/ Code_FlushRemaining /\ UNCHANGED <<discVars, histVars>>
    \/ Code_Return /\ UNCHANGED <<discVars, histVars>>
    \/ Discover_CodeChunked
    \/ Discover_ChunkDoc
    \/ Doc_Section /\ UNCHANGED <<discVars, histVars>>
    \/ Doc_Window /\ UNCHANGED <<discVars, histVars>>
    \/ Doc_SplitReturn /\ UNCHANGED <<discVars, histVars>>
    \/ Doc_Return /\ UNCHANGED <<discVars, histVars>>
    \/ Discover_DocChunked
    \/ Discover_Store

SpecDiscover == InitDiscover /\ [][NextDiscover]_vars

-----------------------------------------------------------------------------
(* parse_file of cast_parser.py *)

\* the file paths handed to parse_file: the supported extensions in lower and
\* upper case, other extensions, a supported extension followed by another
\* one, a dot in a directory name only, no dot at all
ParsePaths ==
    {"A.java", "B.ts", "C.TSX", "D.Java", "E.py", "F.java.bak", "v.ts/README", "java",
     "G.tsx", "H.javax"}

\* a declaration the grammar's query matches: its name node's text and the node's text
Decl(name, body) == [name |-> name, body |-> body]

\* a node's text holding k statement terminators
BodyWith(k) == <<"{">> \o [i \in 1..k |-> ";"] \o <<"}">>

\* the declarations of the model: getter, setter and predicate names in
\* several cases, names that only begin like them, a name holding a prefix
\* further in, with 0 to 4 terminators
DeclPool ==
    { Decl(<<"g", "e", "t", "B", "a", "l", "a", "n", "c", "e">>, <<"{", "r", " ", "b", ";", " ", "}">>),
      Decl(<<"g", "e", "t", "B", "a", "l", "a", "n", "c", "e">>, BodyWith(3)),
      Decl(<<"g", "e", "t", "A", "d", "j", "u", "s", "t", "e", "d", "B", "a", "l", "a", "n", "c", "e">>,
           BodyWith(4)),
      Decl(<<"G", "E", "T">>, BodyWith(0)),
      Decl(<<"g", "e">>, BodyWith(0)),
      Decl(<<"i", "s">>, BodyWith(2)),
      Decl(<<"I", "s", "O", "k">>, BodyWith(3)),
      Decl(<<"s", "E", "t", "X">>, BodyWith(2)),
      Decl(<<"r", "e", "s", "e", "t">>, BodyWith(1)),
      Decl(<<"i">>, BodyWith(0)),
      Decl(<<"r", "u", "n">>, BodyWith(4)),
      Decl(<<"i", "s", "s", "u", "e">>, <<"{", "a", ";", "b", ";", "c", ";", "}">>) }

\* the match lists of at most n declarations
RECURSIVE DeclLists(_)
DeclLists(n) ==
    IF n = 0 THEN {<<>>}
    ELSE LET shorter == DeclLists(n - 1)
         IN  shorter \cup {Append(l, d) : l \in {x \in shorter : Len(x) = n - 1}, d \in DeclPool}

\* what the queries can match in the content handed to parse_file
ParseArgs == DeclLists(MaxDecls)

\* body_text.count(";")
RECURSIVE Count(_, _)
Count(s, c) ==
    IF s = <<>> THEN 0 ELSE (IF Head(s) = c THEN 1 ELSE 0) + Count(Tail(s), c)

\* a filter that looks at the name only
IsTrivialGetterSetter_NameOnly(name, body_text) ==
    \E prefix \in {<<"g", "e", "t">>, <<"s", "e", "t">>, <<"i", "s">>} :
        StartsWith(Lower(name), prefix)

\* _is_trivial_getter_setter(name, body_text)
IsTrivialGetterSetter(name, body_text) ==
    LET lower_name == Lower(name)
    IN  IF ~(\E prefix \in {<<"g", "e", "t">>, <<"s", "e", "t">>, <<"i", "s">>} :
                 StartsWith(lower_name, prefix))
        THEN FALSE
        ELSE Count(body_text, ";") <= 2

\* parse_file(file_content, file_path): the dispatch on the extension
ParseFile_Call(path, decls) ==
    /\ ppc = "idle"
    /\ parse_path' = path
    /\ parse_decls' = decls
    /\ parse_i' = 1
    /\ parse_chunks' = <<>>
    /\ trivial' = <<>>
    /\ ppc' = IF FileExt(path) = <<"j", "a", "v", "a">> THEN "java"
              ELSE IF FileExt(path) \in {<<"t", "s">>, <<"t", "s", "x">>} THEN "typescript"
              ELSE "done"

\* extract_java_methods: one matched node
Extract_JavaNode ==
    /\ ppc = "java"
    /\ parse_i <= Len(parse_decls)
    /\ LET d == parse_decls[parse_i]
           skip == IsTrivialGetterSetter(d.name, d.body)
       IN  /\ trivial' = Append(trivial, skip)
           /\ parse_chunks' =
                 IF skip THEN parse_chunks
                 ELSE Append(parse_chunks,
                             [name |-> d.name, language |-> "java", body |-> d.body,
                              docstring |-> <<>>, start_line |-> parse_i, file_path |-> parse_path])
    /\ parse_i' = parse_i + 1
    /\ UNCHANGED <<ppc, parse_path, parse_decls>>

\* extract_typescript_functions: one matched node
Extract_TypeScriptNode ==
    /\ ppc = "typescript"
    /\ parse_i <= Len(parse_decls)
    /\ LET d == parse_decls[parse_i]
       IN  parse_chunks' =
               Append(parse_chunks,
                      [name |-> d.name, language |-> "typescript", body |-> d.body,
                       docstring |-> <<>>, start_line |-> parse_i, file_path |-> parse_path])
    /\ parse_i' = parse_i + 1
    /\ UNCHANGED <<ppc, parse_path, parse_decls, trivial>>

\* return chunks
Extract_Return ==
    /\ ppc \in {"java", "typescript"}
    /\ parse_i > Len(parse_decls)
    /\ ppc' = "done"
    /\ UNCHANGED <<parse_path, parse_decls, parse_i, parse_chunks, trivial>>

\* nothing was constructed; parse_file is a module-level function
InitParse ==
    /\ instance = "none"
    /\ code_max_chars = 0 /\ doc_max_chars = 0 /\ doc_overlap_chars = 0
    /\ NoCall
    /\ NoRun
    /\ NoParse

\* what a parse_file call leaves alone
ParseFrame ==
    UNCHANGED <<pc, semantic_chunks, codeVars, docVars, confVars, discVars, histVars>>

NextParse ==
    \/ /\ ppc = "idle"
       /\ \E path \in ParsePaths, decls \in ParseArgs : ParseFile_Call(path, decls)
       /\ ParseFrame
    \/ Extract_JavaNode /\ ParseFrame
    \/ Extract_TypeScriptNode /\ ParseFrame
    \/ Extract_Return /\ ParseFrame

SpecParse == InitParse /\ [][NextParse]_vars

-----------------------------------------------------------------------------
(* Repeated calls on one instance *)

\* the arguments of the repeated CodeChunker.chunk call
RepeatCodeArgs == UnitLists(MaxRepeatUnits)

\* the content of the repeated DocumentChunker.chunk call
RepeatDocuments == {Join(ls, <<NL>>) : ls \in LineLists(MaxRepeatLines) \ {<<>>}}

\* the arguments of the CodeChunker.chunk call in between
BetweenCodeArgs == UnitLists(1)

\* the first call: any argument, remembered
Repeat_First ==
    /\ calls = 0
    /\ pc = "idle"
    /\ \/ \E cs \in RepeatCodeArgs :
             /\ CodeChunk_Call(cs)
             /\ first_args' = cs
       \/ \E c \in RepeatDocuments, ft \in FileTypes :
             /\ DocChunk_Call(c, "s", ft)
             /\ first_args' = <<c, "s", ft>>
    /\ UNCHANGED <<discVars, calls, first_result, alone_result>>

\* another call in between: a one-unit list, or a one-line document
Repeat_Between ==
    /\ calls = 1
    /\ pc = "idle"
    /\ \/ \E cs \in BetweenCodeArgs : CodeChunk_Call(cs)
       \/ \E l \in DocLines : DocChunk_Call(l, "t", "md")
    /\ UNCHANGED <<discVars, histVars>>

\* the first call again, with the same arguments
Repeat_Again ==
    /\ calls = 2
    /\ \/ CodeChunk_Call(first_args)
       \/ DocChunk_Call(first_args[1], first_args[2], first_args[3])
    /\ UNCHANGED <<discVars, histVars>>

\* a call returns to the caller, who keeps the result of the first one
Repeat_Returned ==
    /\ pc = "done"
    /\ calls < 2
    /\ pc' = "idle"
    /\ calls' = calls + 1
    /\ first_result' = IF calls = 0 THEN semantic_chunks ELSE first_result
    /\ UNCHANGED <<first_args, alone_result, semantic_chunks, codeVars, docVars, confVars, parseVars, discVars>>

InitRepeat ==
    /\ \/ /\ instance = "CodeChunker"
          /\ \E m \in MaxCharsArgs : code_max_chars = CodeChunker_init(m, 0).max_chars
          /\ doc_max_chars = 0
          /\ doc_overlap_chars = 0
       \/ /\ instance = "DocumentChunker"
          /\ \E m \in MaxCharsArgs, o \in OverlapArgs :
                /\ doc_max_chars = DocumentChunker_init(m, o).max_chars
                /\ doc_overlap_chars = DocumentChunker_init(m, o).overlap_chars
          /\ code_max_chars = 0
    /\ NoCall
    /\ NoRun
    /\ NoParse

NextRepeat ==
    \/ Repeat_First
    \/ Repeat_Between
    \/ Repeat_Again
    \/ Repeat_Returned
    \/ Code_NextFile /\ UNCHANGED <<discVars, histVars>>
    \/ Code_Unit /\ UNCHANGED <<discVars, histVars>>
    \/ Code_FlushRemaining /\ UNCHANGED <<discVars, histVars>>
    \/ Code_Return /\ UNCHANGED <<discVars, histVars>>
    \/ Doc_Section /\ UNCHANGED <<discVars, histVars>>
    \/ Doc_Window /\ UNCHANGED <<discVars, histVars>>
    \/ Doc_SplitReturn /\ UNCHANGED <<discVars, histVars>>
    \/ Doc_Return /\ UNCHANGED <<discVars, histVars>>

SpecRepeat == InitRepeat /\ [][NextRepeat]_vars

-----------------------------------------------------------------------------
(* Each file's units chunked alone, after the batch *)

\* the file paths of a unit list, in order of first appearance
RECURSIVE FileOrder(_)
FileOrder(cs) ==
    IF cs = <<>> THEN <<>>
    ELSE LET prev == FileOrder(SubSeq(cs, 1, Len(cs) - 1))
             f == cs[Len(cs)].file_path
         IN  IF \E i \in 1..Len(prev) : prev[i] = f THEN prev ELSE Append(prev, f)

\* the call on the whole batch, remembered
PerFile_Batch ==
    /\ calls = 0
    /\ pc = "idle"
    /\ \E cs \in CodeArgs :
          /\ CodeChunk_Call(cs)
          /\ first_args' = cs
    /\ UNCHANGED <<discVars, calls, first_result, alone_result>>

\* a call on the units of one file of the batch alone, file after file
PerFile_Alone ==
    /\ calls >= 1
    /\ calls <= Len(FileOrder(first_args))
    /\ LET f == FileOrder(first_args)[calls]
       IN  CodeChunk_Call(SelectSeq(first_args, LAMBDA u : u.file_path = f))
    /\ UNCHANGED <<discVars, histVars>>

\* a call returns: the caller keeps the batch's list, and appends the later lists
PerFile_Returned ==
    /\ pc = "done"
    /\ pc' = "idle"
    /\ calls' = calls + 1
    /\ IF calls = 0
       THEN first_result' = semantic_chunks /\ UNCHANGED alone_result
       ELSE alone_result' = alone_result \o semantic_chunks /\ UNCHANGED first_result
    /\ UNCHANGED <<first_args, semantic_chunks, codeVars, docVars, confVars, parseVars, discVars>>

NextPerFile ==
    \/ PerFile_Batch
    \/ PerFile_Alone
    \/ PerFile_Returned
    \/ Code_NextFile /\ UNCHANGED <<discVars, histVars>>
    \/ Code_Unit /\ UNCHANGED <<discVars, histVars>>
    \/ Code_FlushRemaining /\ UNCHANGED <<discVars, histVars>>
    \/ Code_Return /\ UNCHANGED <<discVars, histVars>>

SpecPerFile == InitCode /\ [][NextPerFile]_vars

-----------------------------------------------------------------------------
(* A DocumentChunker with a larger overlap, on longer lines *)

\* the documents of the model, and each with a longer last line
WideDocuments == {d \o e : d \in Documents, e \in {<<>>, <<"a", "a">>}}

\* a DocumentChunker was constructed with max_chars above MaxChars and any
\* overlap_chars below it
InitDocWide ==
    /\ instance = "DocumentChunker"
    /\ \E o \in 0..MaxChars :
          /\ doc_max_chars = DocumentChunker_init(MaxChars + 1, o).max_chars
          /\ doc_overlap_chars = DocumentChunker_init(MaxChars + 1, o).overlap_chars
    /\ code_max_chars = 0
    /\ NoCall
    /\ NoRun
    /\ NoParse

NextDocWide ==
    \/ /\ pc = "idle"
       /\ \E c \in WideDocuments : DocChunk_Call(c, "s", "md")
       /\ UNCHANGED <<discVars, histVars>>
    \/ Doc_Section /\ UNCHANGED <<discVars, histVars>>
    \/ Doc_Window /\ UNCHANGED <<discVars, histVars>>
    \/ Doc_SplitReturn /\ UNCHANGED <<discVars, histVars>>
    \/ Doc_Return /\ UNCHANGED <<discVars, histVars>>

SpecDocWide == InitDocWide /\ [][NextDocWide]_vars

-----------------------------------------------------------------------------
(* Vocabulary of the claims *)

\* the file paths of the unit pool
Files == {u.file_path : u \in UnitPool}

\* the units of file f in the argument, in argument order
UnitsOfFile(f) == SelectSeq(code_chunks, LAMBDA u : u.file_path = f)

\* the emitted chunks of file f, in emission order
ChunksOfFile(f) == SelectSeq(semantic_chunks, LAMBDA c : c.metadata.file_path = f)

\* the entry texts of a unit sequence
Entries(us) == [k \in 1..Len(us) |-> EntryText(us[k])]

\* the units of us with start_line <= n, by ascending start_line, equal
\* start lines in the order of us
RECURSIVE UpToLine(_, _)
UpToLine(us, n) ==
    IF n = 0 THEN <<>>
    ELSE UpToLine(us, n - 1) \o SelectSeq(us, LAMBDA u : u.start_line = n)

\* the largest start_line of the unit pool
LastLine == CHOOSE n \in {u.start_line : u \in UnitPool} : \A u \in UnitPool : u.start_line <= n

\* the units flushed into the first n chunks, those of file f only, in emission order
RECURSIVE UnitsFlushed(_, _)
UnitsFlushed(f, n) ==
    IF n = 0 THEN <<>>
    ELSE UnitsFlushed(f, n - 1)
         \o (IF semantic_chunks[n].metadata.file_path = f THEN chunk_units[n] ELSE <<>>)

\* the contents of a chunk sequence, each split on the blank-line separator, in order
RECURSIVE Resplit(_)
Resplit(cs) ==
    IF cs = <<>> THEN <<>>
    ELSE Split(Head(cs).content, <<NL, NL>>) \o Resplit(Tail(cs))

\* an entry text the separator cannot be confused with: no blank line inside, no newline at its end
SeparatorFree(e) == Find(e, <<NL, NL>>) = -1 /\ (e = <<>> \/ e[Len(e)] # NL)

\* the configuration the spec calls valid for a DocumentChunker
ValidDocConfig == doc_max_chars >= 1 /\ 0 <= doc_overlap_chars /\ doc_overlap_chars < doc_max_chars

\* the chunks of the running document call: returned sections and the windows carved so far
DocChunksSoFar == IF pc = "split" THEN semantic_chunks \o chunks ELSE semantic_chunks

\* whether chunk c is a carved window
IsWindow(c) == "sub_index" \in DOMAIN c.metadata

-----------------------------------------------------------------------------
(* Claims *)

\* C1: every chunk returned by CodeChunker.chunk or DocumentChunker.chunk has
\* non-empty content.
C1_ContentNonEmpty ==
    \A i \in 1..Len(semantic_chunks) : semantic_chunks[i].content # <<>>

\* C2, as stated: for every file, the contents of its chunks re-split on the
\* blank-line separator are the entry texts of the file's units in the order
\* of the argument.
C2_ResplitOriginalOrder ==
    (pc = "done" /\ instance = "CodeChunker") =>
        \A f \in Files : Resplit(ChunksOfFile(f)) = Entries(UnitsOfFile(f))

\* C2, amended: for every file none of whose entry texts holds a blank line or
\* ends in a newline, the contents of its chunks re-split on the blank-line
\* separator are the entry texts of the file's units by ascending start_line
\* (equal start lines in argument order), each exactly once.
C2_ResplitSortedSeparatorFree ==
    (pc = "done" /\ instance = "CodeChunker") =>
        \A f \in Files :
            (\A k \in 1..Len(UnitsOfFile(f)) : SeparatorFree(EntryText(UnitsOfFile(f)[k])))
            => Resplit(ChunksOfFile(f)) = Entries(UpToLine(UnitsOfFile(f), LastLine))

\* C2 witness: a finished call on a file of separator-free entries that came
\* in out of start_line order and went to a merged chunk and a further chunk.
C2_Witness ==
    /\ pc = "done" /\ instance = "CodeChunker"
    /\ \E f \in Files :
          /\ \A k \in 1..Len(UnitsOfFile(f)) : SeparatorFree(EntryText(UnitsOfFile(f)[k]))
          /\ UnitsOfFile(f) # UpToLine(UnitsOfFile(f), LastLine)
          /\ Len(ChunksOfFile(f)) = 2
          /\ Len(UnitsOfFile(f)) = 3

\* C3: every chunk that merges two or more units has content of at most
\* max_chars characters.
C3_MergedWithinMaxChars ==
    \A i \in 1..Len(semantic_chunks) :
        (instance = "CodeChunker" /\ Len(chunk_units[i]) >= 2)
        => Len(semantic_chunks[i].content) <= code_max_chars

\* C4: a unit whose entry text is longer than max_chars is alone in its chunk,
\* the chunk's content is that entry text, and every unit of a finished call
\* is in a chunk.
C4_OversizedAlone ==
    instance = "CodeChunker" =>
        /\ \A i \in 1..Len(semantic_chunks) :
              \A k \in 1..Len(chunk_units[i]) :
                  Len(EntryText(chunk_units[i][k])) > code_max_chars
                  => /\ Len(chunk_units[i]) = 1
                     /\ semantic_chunks[i].content = EntryText(chunk_units[i][k])
        /\ pc = "done" =>
              \A f \in Files : UnitsFlushed(f, Len(semantic_chunks)) = UpToLine(UnitsOfFile(f), LastLine)

\* C4 witness: a finished call in which an oversized unit stands between two
\* units of its file that fit.
C4_Witness ==
    /\ pc = "done" /\ instance = "CodeChunker"
    /\ code_max_chars >= 2
    /\ \E f \in Files :
          LET us == UpToLine(UnitsOfFile(f), LastLine)
          IN  /\ Len(us) = 3
              /\ Len(EntryText(us[1])) <= code_max_chars
              /\ Len(EntryText(us[2])) > code_max_chars
              /\ Len(EntryText(us[3])) <= code_max_chars

\* C5: under a valid configuration every chunk of DocumentChunker.chunk has
\* content of at most max_chars characters, and every carved window [start,
\* end) ends at or before start + max_chars.
C5_DocChunkWithinMaxChars ==
    (instance = "DocumentChunker" /\ ValidDocConfig) =>
        /\ \A i \in 1..Len(DocChunksSoFar) : Len(DocChunksSoFar[i].content) <= doc_max_chars
        /\ pc = "split" => \A k \in 1..Len(windows) : windows[k][2] <= windows[k][1] + doc_max_chars

\* C5 witness: a finished call under a valid configuration that returned a
\* whole section and a carved window, both of exactly max_chars characters.
C5_Witness ==
    /\ pc = "done" /\ instance = "DocumentChunker" /\ ValidDocConfig
    /\ \E i, j \in 1..Len(semantic_chunks) :
          /\ IsWindow(semantic_chunks[i]) /\ ~IsWindow(semantic_chunks[j])
          /\ Len(semantic_chunks[i].content) = doc_max_chars
          /\ Len(semantic_chunks[j].content) = doc_max_chars

\* C6: no chunk operation runs on a chunker whose max_chars is non-positive
\* or whose overlap_chars is not below max_chars (construction rejected it).
C6_NoCallOnInvalidConfig ==
    (instance = "DocumentChunker" /\ pc # "idle") =>
        (doc_max_chars >= 1 /\ doc_overlap_chars < doc_max_chars)

\* the chunks a discovery run has produced so far: those returned to
\* discover and those of the chunk call that is running
RunChunks ==
    semantic_code \o semantic_docs
    \o (IF pc = "idle" THEN <<>> ELSE IF dpc = "chunk_code" THEN semantic_chunks ELSE DocChunksSoFar)

C8_SameResultAgain ==
    (pc = "done" /\ calls = 2) => semantic_chunks = first_result

\* C8 witness: the repeated call on a CodeChunker has returned, after the call
\* in between, and the first call had returned several chunks.
C8_Witness ==
    /\ pc = "done" /\ calls = 2
    /\ Len(first_result) >= 2
    /\ first_result[2].metadata.type = "code"

\* the same on a DocumentChunker, the first call having carved windows
C8_WitnessDoc ==
    /\ pc = "done" /\ calls = 2
    /\ Len(first_result) >= 2
    /\ first_result[2].metadata.type = "doc"
    /\ IsWindow(first_result[2])

\* C9: each code chunk's id is "{file_path}::chunk_{ordinal}", its ordinal is
\* the number of chunks emitted before it for the same file (0, 1, 2, ... per
\* file), its metadata chunk_index is that ordinal, and its metadata file_path
\* is the file of the units it holds.
C9_CodeChunkOrdinals ==
    instance = "CodeChunker" =>
        \A i \in 1..Len(semantic_chunks) :
            LET c == semantic_chunks[i]
                f == chunk_units[i][1].file_path
                ordinal == Cardinality({j \in 1..(i - 1) : chunk_units[j][1].file_path = f})
            IN  /\ c.id = f \o "::chunk_" \o ToString(ordinal)
                /\ c.metadata.chunk_index = ordinal
                /\ c.metadata.file_path = f

\* C9 witness: a finished call that returned two chunks of one file and then
\* the first chunk of another file.
C9_Witness ==
    /\ pc = "done" /\ instance = "CodeChunker"
    /\ \E i, j \in 1..Len(semantic_chunks) :
          /\ i < j
          /\ semantic_chunks[i].metadata.chunk_index = 1
          /\ semantic_chunks[j].metadata.chunk_index = 0

\* C10: a section within max_chars yields exactly one chunk, with id
\* "{source}::doc_{section_index}"; a longer section yields only chunks with
\* ids "{source}::doc_{section_index}_{sub_index}", whose sub_index counts the
\* chunks emitted before it for that section; section_index is the section's
\* 0-based position and never decreases along the output.
C10_DocChunkIds ==
    instance = "DocumentChunker" =>
        LET out == DocChunksSoFar
            done(i) == IF pc = "done" THEN TRUE ELSE i < idx
        IN  /\ \A k \in 1..Len(out) :
                  LET c == out[k]
                      i == c.metadata.section_index
                      before == Cardinality({m \in 1..(k - 1) : out[m].metadata.section_index = i})
                  IN  /\ i \in 0..(Len(sections) - 1)
                      /\ k > 1 => out[k - 1].metadata.section_index <= i
                      /\ IF Len(sections[i + 1]) <= doc_max_chars
                         THEN /\ ~IsWindow(c)
                              /\ c.id = source \o "::doc_" \o ToString(i)
                              /\ before = 0
                         ELSE /\ IsWindow(c)
                              /\ c.metadata.sub_index = before
                              /\ c.id = source \o "::doc_" \o ToString(i) \o "_" \o ToString(before)
            /\ \A i \in 0..(Len(sections) - 1) :
                  (done(i) /\ Len(sections[i + 1]) <= doc_max_chars)
                  => \E k \in 1..Len(out) : out[k].metadata.section_index = i

\* C10 witness: a finished call that returned a whole section and, for a
\* longer section one of whose windows was empty after trimming, the windows
\* numbered 0 and 1.
C10_Witness ==
    /\ pc = "done" /\ instance = "DocumentChunker"
    /\ Len(windows) > Len(chunks)
    /\ \E i, j \in 1..Len(semantic_chunks) :
          /\ ~IsWindow(semantic_chunks[i])
          /\ IsWindow(semantic_chunks[j])
          /\ semantic_chunks[j].metadata.sub_index = 1

\* C11: every chunk of CodeChunker.chunk holds entries of exactly one file,
\* the file of its metadata, and the list returned for a batch is the lists
\* returned for each file's units alone, one after the other in the order in
\* which the files first appear in the batch.
C11_FilesIndependent ==
    instance = "CodeChunker" =>
        /\ \A i \in 1..Len(semantic_chunks) :
              /\ chunk_units[i] # <<>>
              /\ \A k \in 1..Len(chunk_units[i]) :
                    chunk_units[i][k].file_path = semantic_chunks[i].metadata.file_path
              /\ semantic_chunks[i].content = Join(Entries(chunk_units[i]), <<NL, NL>>)
        /\ (pc = "idle" /\ calls = Len(FileOrder(first_args)) + 1)
           => alone_result = first_result

\* C11 witness: a batch in which a unit of a second file stands between two
\* units of the first, which returned three chunks, has been chunked file by
\* file.
C11_Witness ==
    /\ pc = "idle" /\ calls = 3
    /\ Len(first_args) = 3
    /\ first_args[1].file_path = first_args[3].file_path
    /\ first_args[2].file_path # first_args[1].file_path
    /\ Len(first_result) = 3
    /\ alone_result = first_result

\* C12: _is_trivial_getter_setter(name, body) is true exactly when the name,
\* letter case set aside, begins with "get", "set" or "is" and the body holds
\* at most two ';' characters; getBalance with one terminator is dropped and
\* getAdjustedBalance with four is kept.
C12_TrivialExactly ==
    \A k \in 1..Len(trivial) :
        LET name == parse_decls[k].name
            body == parse_decls[k].body
            semicolons == Cardinality({i \in 1..Len(body) : body[i] = ";"})
            begins(p) == /\ Len(name) >= Len(p)
                         /\ \A i \in 1..Len(p) : name[i] = p[i] \/ name[i] = UpperLetters[
                                CHOOSE j \in 1..Len(LowerLetters) : LowerLetters[j] = p[i]]
        IN  /\ trivial[k] <=> ((begins(<<"g", "e", "t">>) \/ begins(<<"s", "e", "t">>)
                                 \/ begins(<<"i", "s">>)) /\ semicolons <= 2)
            /\ (name = <<"g", "e", "t", "B", "a", "l", "a", "n", "c", "e">> /\ semicolons = 1)
               => trivial[k]
            /\ (Len(name) = 18 /\ semicolons = 4) => ~trivial[k]

\* C12 witness: a Java file in which getBalance with one terminator was
\* dropped and getAdjustedBalance with four was kept has been parsed.
C12_Witness ==
    /\ ppc = "done"
    /\ Len(trivial) = 2
    /\ parse_decls[1].name = <<"g", "e", "t", "B", "a", "l", "a", "n", "c", "e">>
    /\ Count(parse_decls[1].body, ";") = 1
    /\ trivial[1]
    /\ Len(parse_decls[2].name) = 18
    /\ ~trivial[2]
    /\ Len(parse_chunks) = 1
    /\ parse_chunks[1].name = parse_decls[2].name

\* the paths of the model whose extension, the text after the last dot with
\* letter case set aside, is none of java, ts, tsx, and those without a dot
UnsupportedPaths == {"E.py", "F.java.bak", "v.ts/README", "java", "H.javax"}

\* C13: parse_file returns an empty list, without running an extraction, for
\* every path whose extension is not java, ts or tsx in any letter case, paths
\* without an extension included, whatever the grammar would find in the
\* content.
C13_UnsupportedExtensionEmpty ==
    (ppc # "idle" /\ parse_path \in UnsupportedPaths) =>
        /\ ppc = "done"
        /\ parse_chunks = <<>>
        /\ trivial = <<>>

\* C13 witness: parse_file has returned for a path without a dot whose content
\* holds declarations that a Java extraction would keep.
C13_Witness ==
    /\ ppc = "done"
    /\ parse_path = "java"
    /\ Len(parse_decls) = MaxDecls
    /\ \A k \in 1..Len(parse_decls) : ~IsTrivialGetterSetter(parse_decls[k].name, parse_decls[k].body)
    /\ parse_chunks = <<>>

\* C14: DocumentChunker.chunk returns the empty list at once for every
\* content made of whitespace only (the empty string included), and
\* CodeChunker.chunk returns the empty list at once for the empty unit list.
C14_EmptyInputEmptyList ==
    /\ (instance = "DocumentChunker" /\ pc # "idle"
        /\ \A k \in 1..Len(content) : content[k] \in {" ", "\n", "\t", "\r"})
       => (pc = "done" /\ semantic_chunks = <<>>)
    /\ (instance = "CodeChunker" /\ pc # "idle" /\ code_chunks = <<>>)
       => (pc = "done" /\ semantic_chunks = <<>>)

\* C14 witness: a DocumentChunker whose max_chars would let the content
\* through as a section has returned the empty list for a content of blanks
\* and a newline.
C14_Witness ==
    /\ instance = "DocumentChunker" /\ pc = "done"
    /\ doc_max_chars >= 3
    /\ content = <<" ", NL, " ">>
    /\ semantic_chunks = <<>>

\* the same for a CodeChunker and the empty unit list
C14_WitnessCode ==
    /\ instance = "CodeChunker" /\ pc = "done"
    /\ code_chunks = <<>>
    /\ semantic_chunks = <<>>
    /\ calls = 1
    /\ first_result # <<>>

\* C15: a failed unit extraction for one file never stops the discovery run:
\* the file counts for an empty unit list and the run goes on to parse, chunk
\* and store the other files.
C15_ParseFailureDoesNotStopRun ==
    dpc # "aborted"

\* whether a line is a header or a horizontal rule: its first non-blank
\* character is '#', or it is "---", "***" or "___" between blanks
MarkerLine(l) ==
    LET inner == SelectSeq(l, LAMBDA c : c \notin {" ", "\t", "\r"})
    IN  \/ (inner # <<>> /\ inner[1] = "#")
        \/ Strip(l) \in {<<"-", "-", "-">>, <<"*", "*", "*">>, <<"_", "_", "_">>}

\* C16: the sections of _split_on_headers joined with a newline are the input
\* text, and a text without a header or horizontal-rule line gives exactly one
\* section, the whole text.
C16_SectionsPartitionText ==
    (instance = "DocumentChunker" /\ pc # "idle" /\ Strip(content) # <<>>) =>
        /\ Join(sections, <<NL>>) = content
        /\ (\A k \in 1..Len(Split(content, <<NL>>)) : ~MarkerLine(Split(content, <<NL>>)[k]))
           => sections = <<content>>

\* C16 witness: a finished call on a text of three lines with a header after
\* the first line, split into two sections.
C16_Witness ==
    /\ instance = "DocumentChunker" /\ pc = "done"
    /\ Len(Split(content, <<NL>>)) = 3
    /\ ~MarkerLine(Split(content, <<NL>>)[1])
    /\ MarkerLine(Split(content, <<NL>>)[2])
    /\ Len(sections) = 2
    /\ Join(sections, <<NL>>) = content

\* C17: with 0 < overlap_chars < max_chars, every carved window after the
\* first begins inside the last overlap_chars characters of the window before
\* it: s_k <= s_{k+1} < e_k and e_k - s_{k+1} <= overlap_chars.
C17_WindowsOverlap ==
    (instance = "DocumentChunker" /\ 0 < doc_overlap_chars /\ doc_overlap_chars < doc_max_chars) =>
        \A k \in 1..(Len(windows) - 1) :
            /\ windows[k][1] <= windows[k + 1][1]
            /\ windows[k + 1][1] < windows[k][2]
            /\ windows[k][2] - windows[k + 1][1] <= doc_overlap_chars

\* C18: a document that is one section and too long for two windows (longer
\* than 2 * max_chars - overlap_chars, as 4000 is for 1500 and 150) and not
\* blank returns at least 3 sub-chunks, under a valid configuration.
C18_LongSectionThreeSubChunks ==
    (instance = "DocumentChunker" /\ pc = "done" /\ ValidDocConfig
     /\ Len(sections) = 1 /\ Len(content) > 2 * doc_max_chars - doc_overlap_chars)
    => /\ Len(semantic_chunks) >= 3
       /\ \A k \in 1..Len(semantic_chunks) : IsWindow(semantic_chunks[k])

\* C19: the language in the metadata of every chunk of CodeChunker.chunk is
\* the language of the last unit whose entry the chunk holds, for a mid-file
\* flush and for the final flush of a file.
C19_LanguageOfLastUnit ==
    instance = "CodeChunker" =>
        \A i \in 1..Len(semantic_chunks) :
            semantic_chunks[i].metadata.language = chunk_units[i][Len(chunk_units[i])].language

\* C20: a document whose file type is neither a code type nor a documentation
\* type produces no chunks: chunk_document returns the empty list for it.
C20_UnknownTypeSkipped ==
    (pc = "done" /\ file_type \notin {"md", "html", "txt", "rst", "java", "ts", "tsx"})
    => semantic_chunks = <<>>

\* C21: every chunk of DocumentChunker.chunk, whole section or carved window,
\* has metadata with the source, the file_type passed to chunk and its
\* section_index; every chunk of CodeChunker.chunk has metadata with
\* file_path, language and chunk_index.
C21_MetadataKeys ==
    /\ instance = "DocumentChunker" =>
          \A i \in 1..Len(DocChunksSoFar) :
              LET md == DocChunksSoFar[i].metadata
              IN  /\ {"source", "file_type", "section_index"} \subseteq DOMAIN md
                  /\ md.source = source
                  /\ md.file_type = file_type
    /\ instance = "CodeChunker" =>
          \A i \in 1..Len(semantic_chunks) :
              {"file_path", "language", "chunk_index"} \subseteq DOMAIN semantic_chunks[i].metadata

\* C22: under a valid configuration the window loop of _split_by_length
\* terminates: the window start strictly increases on every iteration until
\* it reaches the end of the section.
C22_StartStrictlyIncreases ==
    (instance = "DocumentChunker" /\ ValidDocConfig /\ pc = "split") =>
        /\ \A k \in 1..(Len(windows) - 1) : windows[k][1] < windows[k + 1][1]
        /\ windows # <<>> => windows[Len(windows)][1] < start
        /\ start <= Len(text)

\* C23: with 0 <= overlap_chars < max_chars the carved windows cover the
\* section: the first starts at offset 0, each next one starts at an offset
\* from 0 to the end of the one before, and the last ends at the section's end.
C23_WindowsCoverSection ==
    (instance = "DocumentChunker" /\ ValidDocConfig /\ windows # <<>>) =>
        /\ windows[1][1] = 0
        /\ \A k \in 1..(Len(windows) - 1) :
              0 <= windows[k + 1][1] /\ windows[k + 1][1] <= windows[k][2]
        /\ pc # "split" => windows[Len(windows)][2] = Len(text)

\* C24: for a document that is not blank, no section returned by
\* _split_on_headers is empty or made of whitespace only.
C24_NoBlankSection ==
    (instance = "DocumentChunker" /\ pc # "idle" /\ Strip(content) # <<>>) =>
        \A i \in 1..Len(sections) :
            \E k \in 1..Len(sections[i]) : sections[i][k] \notin {" ", "\n", "\t", "\r"}

\* the lines of the running document call's content
ContentLines == Split(content, <<NL>>)

\* C25: every section of _split_on_headers after the first begins with a
\* marker line, no marker line stands anywhere but first in a section, and the
\* number of sections is 1 plus the number of marker lines other than the
\* text's first line.
C25_SectionsStartAtMarkers ==
    (instance = "DocumentChunker" /\ pc # "idle" /\ Strip(content) # <<>>) =>
        /\ \A i \in 1..Len(sections) :
              LET ls == Split(sections[i], <<NL>>)
              IN  /\ i > 1 => MarkerLine(ls[1])
                  /\ \A k \in 2..Len(ls) : ~MarkerLine(ls[k])
        /\ Len(sections) = 1 + Cardinality({k \in 2..Len(ContentLines) : MarkerLine(ContentLines[k])})

\* C25 witness: a finished call on a header, a text line and a second header,
\* split into two sections that start at the headers.
C25_Witness ==
    /\ instance = "DocumentChunker" /\ pc = "done"
    /\ content = <<"#", "a", NL, "a", NL, "#", "a">>
    /\ sections = << <<"#", "a", NL, "a">>, <<"#", "a">> >>

\* the offsets of the paragraph breaks that lie inside the window from s to
\* hard, strictly after s; a negative s is read as Python reads it, from the
\* end of the text
BreaksInside(s, hard) ==
    {b \in Max(s + 1, PyIndex(s, Len(text)))..(hard - 2) : text[b + 1] = NL /\ text[b + 2] = NL}

\* C26: a window starting at start ends at the last paragraph break inside it
\* strictly after start when start + max_chars is before the section's end
\* and there is such a break, and at min(start + max_chars, section length)
\* otherwise.
C26_WindowEndRule ==
    instance = "DocumentChunker" =>
        \A k \in 1..Len(windows) :
            LET s == windows[k][1]
                hard == Min(s + doc_max_chars, Len(text))
                brk == BreaksInside(s, hard)
            IN  windows[k][2] =
                    IF s + doc_max_chars < Len(text) /\ brk # {}
                    THEN CHOOSE b \in brk : \A c \in brk : c <= b
                    ELSE hard

\* whether a name, letter case set aside, begins with prefix p
BeginsWith(name, p) ==
    /\ Len(name) >= Len(p)
    /\ \A i \in 1..Len(p) :
          name[i] = p[i]
          \/ name[i] = UpperLetters[CHOOSE j \in 1..Len(LowerLetters) : LowerLetters[j] = p[i]]

\* the triviality predicate: an accessor-like name and at most two ';' in the body
TrivialAccessor(u) ==
    /\ BeginsWith(u.name, <<"g", "e", "t">>) \/ BeginsWith(u.name, <<"s", "e", "t">>)
       \/ BeginsWith(u.name, <<"i", "s">>)
    /\ Cardinality({i \in 1..Len(u.body) : u.body[i] = ";"}) <= 2

\* C27: no unit parse_file returns, for a Java file or a TypeScript file,
\* satisfies the triviality predicate.
C27_NoTrivialUnitReturned ==
    \A k \in 1..Len(parse_chunks) : ~TrivialAccessor(parse_chunks[k])

\* C28: for every input list, the entries of a file come out, across the
\* file's chunks and inside each chunk, in non-decreasing start_line order,
\* and the units of one start_line keep their input order.
C28_StartLineOrderStable ==
    (instance = "CodeChunker" /\ pc = "done") =>
        /\ \A f \in Files :
              LET out == UnitsFlushed(f, Len(semantic_chunks))
              IN  /\ \A i \in 1..(Len(out) - 1) : out[i].start_line <= out[i + 1].start_line
                  /\ \A n \in 1..LastLine :
                        SelectSeq(out, LAMBDA u : u.start_line = n)
                        = SelectSeq(UnitsOfFile(f), LAMBDA u : u.start_line = n)
        /\ \A i \in 1..Len(semantic_chunks) :
              semantic_chunks[i].content = Join(Entries(chunk_units[i]), <<NL, NL>>)

\* C28 witness: a finished call on a file whose three units came in with the
\* highest start_line first and two different units of one start_line, and
\* went to several chunks.
C28_Witness ==
    /\ instance = "CodeChunker" /\ pc = "done"
    /\ \E f \in Files :
          LET us == UnitsOfFile(f)
          IN  /\ Len(us) = 3
              /\ us[1].start_line > us[2].start_line
              /\ us[2].start_line = us[3].start_line
              /\ us[2] # us[3]
              /\ Len(ChunksOfFile(f)) >= 2

\* the sum of the lengths of the entry texts of a unit sequence
RECURSIVE EntryLengths(_)
EntryLengths(us) ==
    IF us = <<>> THEN 0 ELSE Len(EntryText(Head(us))) + EntryLengths(Tail(us))

\* C29: every chunk of CodeChunker.chunk holds at least one entry, and for any
\* two consecutive chunks of one file the entry lengths of the earlier chunk
\* plus the length of the first entry of the later chunk exceed max_chars.
C29_GreedyPacking ==
    instance = "CodeChunker" =>
        /\ \A i \in 1..Len(semantic_chunks) : Len(chunk_units[i]) >= 1
        /\ \A i \in 1..(Len(semantic_chunks) - 1) :
              semantic_chunks[i].metadata.file_path = semantic_chunks[i + 1].metadata.file_path
              => EntryLengths(chunk_units[i]) + Len(EntryText(chunk_units[i + 1][1])) > code_max_chars

\* C29 witness: a finished call that returned, for one file, a chunk of two
\* entries filling max_chars exactly and then a further chunk.
C29_Witness ==
    /\ instance = "CodeChunker" /\ pc = "done"
    /\ \E i \in 1..(Len(semantic_chunks) - 1) :
          /\ semantic_chunks[i].metadata.file_path = semantic_chunks[i + 1].metadata.file_path
          /\ Len(chunk_units[i]) = 2
          /\ EntryLengths(chunk_units[i]) = code_max_chars

\* the sum of the lengths of a sequence of texts
RECURSIVE TextLengths(_)
TextLengths(ts) ==
    IF ts = <<>> THEN 0 ELSE Len(Head(ts)) + TextLengths(Tail(ts))

\* C30: at every step of the merge loop the running length is the sum of the
\* lengths of the buffered entries, separators not counted; a buffer of two
\* or more entries sums to at most max_chars, and so does every emitted chunk
\* of two or more entries.
C30_RunningLength ==
    instance = "CodeChunker" =>
        /\ current_length = TextLengths(current_buffer)
        /\ current_buffer = Entries(current_units)
        /\ Len(current_buffer) >= 2 => TextLengths(current_buffer) <= code_max_chars
        /\ \A i \in 1..Len(semantic_chunks) :
              Len(chunk_units[i]) >= 2 => EntryLengths(chunk_units[i]) <= code_max_chars

\* C30 witness: the merge loop holds a buffer of two entries that fills
\* max_chars exactly, after a chunk of the same file was flushed.
C30_Witness ==
    /\ instance = "CodeChunker" /\ pc = "units"
    /\ Len(current_buffer) = 2
    /\ current_length = code_max_chars
    /\ chunk_idx = 1

====
